---- MODULE Spec2Model ----
\* SQL-backed message queue of watermill-sql (SQLite/MariaDB adapters):
\* the per-topic messages table, the per-topic offsets table, the statements
\* built by DefaultSQLiteSchema and DefaultSQLiteOffsetsAdapter, and the
\* subscriber transactions that execute them against a locking, serializable
\* store.  One topic is modelled: every table is per topic.
EXTENDS Integers, Sequences, FiniteSets, TLC

\* ---------------------------------------------------------------- bounds
MaxMsgs == 3          \* messages published to the topic
MaxFailures == 1      \* handler failures and interrupted transactions

\* ---------------------------------------------------------------- constants
DefaultBatchSize == 100

Groups == {"billing", "shipping"}
Subscribers == {"s1", "s2", "s3", "s4"}
UUIDs == {"u1"}
BatchSizes == {0, 1, 2}   \* configured values of SubscribeBatchSize

\* The consumer group each subscriber instance polls for.
GroupOf(s) == IF s = "s4" THEN "shipping" ELSE "billing"

\* The sets of subscriber instances run together: three instances of one
\* group, or one instance of each group.
Deployments == {{"s1", "s2", "s3"}, {"s1", "s4"}}

\* A nullable INTEGER column: NULL, or <<n>>.
NULL == <<>>
Int1(n) == <<n>>

VARIABLES
    messages,            \* rows of the messages table (committed)
    autoinc,             \* AUTOINCREMENT counter of the messages table
    offsets,             \* committed offsets table: consumer_group -> row
    SubscribeBatchSize,  \* DefaultSQLiteSchema.SubscribeBatchSize
    subs,                \* the subscriber instances that are running
    pc,                  \* subscriber -> state of its poll cycle
    lock,                \* subscriber -> lock its transaction holds on its group's key
    writes,              \* subscriber -> uncommitted offsets rows of its transaction
    bound,               \* subscriber -> result of its last NextOffsetQuery
    batch,               \* subscriber -> rows fetched and not yet acknowledged
    txAcks,              \* subscriber -> offsets acknowledged in the open transaction
    ackSeq,              \* group -> offsets of committed acknowledgments, in commit order
    handled,             \* group -> offset -> number of times handed to the handler
    failures,            \* handler failures and interrupted transactions so far
    pending,             \* message rows inserted by transactions not yet committed
    tables,              \* the tables that exist
    strict,              \* whether the store enforces NOT NULL on omitted columns
    stmt,                \* the last statement a caller built and executed, and its outcome
    result,              \* the rows the last fetch statement returned
    decoded,             \* the outcomes of UnmarshalMessage on the rows of result, in order
    published            \* offset and message of every row stored by the insert statement

\* What the callers of the statement-level operations observe.
storeVars == <<tables, strict, stmt, result, decoded, published>>

vars == <<messages, autoinc, offsets, SubscribeBatchSize, subs, pc, lock, writes,
          bound, batch, txAcks, ackSeq, handled, failures, pending, storeVars>>

\* ---------------------------------------------------------------- helpers
COALESCE(x, d) == IF x = NULL THEN d ELSE x[1]

Last(q) == q[Len(q)]

\* The table `committed` overlaid with the rows written by a transaction.
Overlay(committed, w) ==
    [g \in DOMAIN committed \cup DOMAIN w |->
        IF g \in DOMAIN w THEN w[g] ELSE committed[g]]

\* The offsets table as the open transaction of s sees it.
TxView(s) == Overlay(offsets, writes[s])

NoRows == [g \in {} |-> 0]

\* The rows of table `new` that a statement inserted into or changed in `old`.
Changed(old, new) ==
    [g \in {h \in DOMAIN new : h \notin DOMAIN old \/ old[h] # new[h]} |-> new[g]]

Others(s) == {u \in Subscribers \ {s} : GroupOf(u) = GroupOf(s)}

\* ------------------------------------------------------- message store
\* batchSize(): 100 when SubscribeBatchSize is unset.
batchSize(sbs) == IF sbs = 0 THEN DefaultBatchSize ELSE sbs

\* ---- messages and the metadata encoding
\* A string that is not valid UTF-8, and what the JSON encoder writes for it.
InvalidUTF8 == "<ff>"
ReplacementChar == "<fffd>"
ToValidUTF8(str) == IF str = InvalidUTF8 THEN ReplacementChar ELSE str

\* message.Metadata values: a string-to-string mapping (a set of key/value
\* pairs), the nil mapping, and a value the encoder cannot serialize.
Mapping(pairs) == [kind |-> "map", pairs |-> pairs]
NilMapping == [kind |-> "nil", pairs |-> {}]
Unencodable == [kind |-> "unencodable", pairs |-> {}]
EmptyMapping == Mapping({})

\* Values of the metadata column: SQL NULL, a JSON object, the JSON text
\* null, and bytes that are not JSON.
SqlNullBlob == [kind |-> "NULL", pairs |-> {}]
JsonObject(pairs) == [kind |-> "json-object", pairs |-> pairs]
JsonNull == [kind |-> "json-null", pairs |-> {}]
NotJson == [kind |-> "garbage", pairs |-> {}]

\* json.Marshal(msg.Metadata): strings are coerced to valid UTF-8.
JsonMarshal(md) ==
    IF md.kind = "map"
       THEN [ok |-> TRUE,
             blob |-> JsonObject({<<ToValidUTF8(kv[1]), ToValidUTF8(kv[2])>> :
                                     kv \in md.pairs})]
    ELSE IF md.kind = "nil" THEN [ok |-> TRUE, blob |-> JsonNull]
    ELSE [ok |-> FALSE, blob |-> SqlNullBlob]

\* json.Unmarshal(blob, &msg.Metadata) into the mapping `into`: an object's
\* members are added to the mapping, null sets it to nil.
JsonUnmarshal(blob, into) ==
    IF blob.kind = "json-object"
       THEN [ok |-> TRUE, md |-> Mapping(into.pairs \cup blob.pairs)]
    ELSE IF blob.kind = "json-null" THEN [ok |-> TRUE, md |-> NilMapping]
    ELSE [ok |-> FALSE, md |-> into]

\* The messages publishers send.
Payloads == {"hello"}
Message(uuid, payload, md) == [uuid |-> uuid, payload |-> payload, metadata |-> md]
PlainMessage == Message("u1", "hello", Mapping({<<"k", "v">>}))

\* The Query value: statement text and bound arguments.
EmptyQuery == [query |-> "", args |-> <<>>]

RECURSIVE BindArgs(_)
BindArgs(msgs) ==
    IF msgs = <<>> THEN <<>>
    ELSE <<Head(msgs).uuid, Head(msgs).payload, JsonMarshal(Head(msgs).metadata).blob>>
            \o BindArgs(Tail(msgs))

\* Mutant of InsertQuery: the arguments bound before the failing message
\* are returned with the error.
InsertQuery_Partial(msgs) ==
    LET bad == {i \in DOMAIN msgs : ~JsonMarshal(msgs[i].metadata).ok}
    IN  IF bad # {}
           THEN [query |-> [query |-> "INSERT", args |-> BindArgs(SubSeq(msgs, 1,
                    (CHOOSE i \in bad : \A j \in bad : i <= j) - 1))],
                 err |-> TRUE]
           ELSE [query |-> [query |-> "INSERT", args |-> BindArgs(msgs)],
                 err |-> FALSE]

\* Mutant of InsertQuery: payload and uuid are bound in the wrong order.
InsertQuery_Swapped(msgs) ==
    [query |-> [query |-> "INSERT",
                args |-> BindArgs([i \in DOMAIN msgs |->
                    Message(msgs[i].payload, msgs[i].uuid, msgs[i].metadata)])],
     err |-> \E i \in DOMAIN msgs : ~JsonMarshal(msgs[i].metadata).ok]

\* InsertQuery: INSERT INTO messages (uuid, payload, metadata) VALUES
\* (?,?,?),... with (uuid, payload, encoded metadata) bound per message; an
\* encoding failure returns the empty Query and the error.
InsertQuery(msgs) ==
    IF \E i \in DOMAIN msgs : ~JsonMarshal(msgs[i].metadata).ok
       THEN [query |-> EmptyQuery, err |-> TRUE]
       ELSE [query |-> [query |-> "INSERT", args |-> BindArgs(msgs)],
             err |-> FALSE]

\* ---- the messages table
\* CREATE TABLE IF NOT EXISTS messages: offset INTEGER NOT NULL AUTOINCREMENT
\* PRIMARY KEY, uuid TEXT NOT NULL, created_at TEXT NOT NULL, payload BLOB
\* DEFAULT NULL, metadata BLOB DEFAULT NULL.
NotNullColumns == {"offset", "uuid", "created_at"}
AutoIncrementColumns == {"offset"}
DefaultColumns == {"payload", "metadata"}
\* The columns the insert statement names.
InsertColumns == {"uuid", "payload", "metadata"}

\* The NOT NULL columns an insert gives no value: neither bound by the
\* statement, nor assigned by AUTOINCREMENT, nor defaulted by the schema.
ColumnsWithoutValue(cols) ==
    NotNullColumns \ (cols \cup AutoIncrementColumns \cup DefaultColumns)

\* The value a lenient store writes into a TEXT NOT NULL column that was
\* given none (the type's implicit default).
ImplicitTextDefault == ""

\* Mutant of StoredRows: a batch's offsets start at the counter itself.
StoredRows_Reuse(counter, q) ==
    {[offset |-> counter + i - 1,
      uuid |-> q.args[3 * i - 2],
      created_at |-> ImplicitTextDefault,
      payload |-> q.args[3 * i - 1],
      metadata |-> q.args[3 * i]] : i \in 1..(Len(q.args) \div 3)}

\* The rows the insert statement q stores: one per (?,?,?) group, offsets
\* assigned by AUTOINCREMENT in batch order.
StoredRows(counter, q) ==
    {[offset |-> counter + i,
      uuid |-> q.args[3 * i - 2],
      created_at |-> ImplicitTextDefault,
      payload |-> q.args[3 * i - 1],
      metadata |-> q.args[3 * i]] : i \in 1..(Len(q.args) \div 3)}

\* ---- decoding
\* Row{}: the zero Row.
EmptyRow == [Offset |-> 0, UUID |-> "", Payload |-> "", Metadata |-> SqlNullBlob,
             Msg |-> Message("", "", NilMapping)]

\* Mutant of UnmarshalMessage: a metadata error returns the scanned row.
UnmarshalMessage_KeepRow(scan) ==
    IF ~scan.ok THEN [row |-> EmptyRow, err |-> "scan"]
    ELSE LET r == scan.row
             u == JsonUnmarshal(r.metadata, EmptyMapping)
         IN  [row |-> [Offset |-> r.offset, UUID |-> r.uuid, Payload |-> r.payload,
                       Metadata |-> r.metadata,
                       Msg |-> Message(r.uuid, r.payload,
                                 IF r.metadata = SqlNullBlob THEN EmptyMapping ELSE u.md)],
              err |-> IF r.metadata # SqlNullBlob /\ ~u.ok THEN "unmarshal" ELSE ""]

\* UnmarshalMessage(row Scanner): scan (offset, uuid, payload, metadata),
\* build the message, and parse a non-nil metadata blob into its metadata.
UnmarshalMessage(scan) ==
    IF ~scan.ok THEN [row |-> EmptyRow, err |-> "scan"]
    ELSE LET r == scan.row
             u == JsonUnmarshal(r.metadata, EmptyMapping)
         IN  IF r.metadata # SqlNullBlob /\ ~u.ok
                THEN [row |-> EmptyRow, err |-> "unmarshal"]
                ELSE [row |-> [Offset |-> r.offset, UUID |-> r.uuid,
                               Payload |-> r.payload, Metadata |-> r.metadata,
                               Msg |-> Message(r.uuid, r.payload,
                                         IF r.metadata = SqlNullBlob
                                            THEN EmptyMapping ELSE u.md)],
                      err |-> ""]

\* Mutant of OrderByOffset: ORDER BY offset DESC.
RECURSIVE OrderByOffset_Desc(_)
OrderByOffset_Desc(rows) ==
    IF rows = {} THEN <<>>
    ELSE LET hi == CHOOSE r \in rows : \A q \in rows : r.offset >= q.offset
         IN  <<hi>> \o OrderByOffset_Desc(rows \ {hi})

\* ORDER BY offset ASC over a set of rows.
RECURSIVE OrderByOffset(_)
OrderByOffset(rows) ==
    IF rows = {} THEN <<>>
    ELSE LET lo == CHOOSE r \in rows : \A q \in rows : r.offset <= q.offset
         IN  <<lo>> \o OrderByOffset(rows \ {lo})

\* Mutant of Limit: the last n rows are kept instead of the first n.
Limit_Tail(q, n) == IF Len(q) <= n THEN q ELSE SubSeq(q, Len(q) - n + 1, Len(q))

\* LIMIT n; a negative n sets no upper bound (SQLite).
Limit(q, n) == IF n < 0 \/ Len(q) <= n THEN q ELSE SubSeq(q, 1, n)

\* ------------------------------------------------------- offsets adapter
\* Mutant of NextOffsetQuery: returns the next offset to read (acked + 1)
\* instead of the acknowledged offset.
NextOffsetQuery_PlusOne(tbl, consumerGroup) ==
    COALESCE(IF consumerGroup \in DOMAIN tbl
                THEN tbl[consumerGroup].offset_acked ELSE NULL, 0) + 1

\* SELECT COALESCE((SELECT offset_acked FROM offsets WHERE consumer_group=?
\* FOR UPDATE), 0), evaluated on the table tbl.
NextOffsetQuery(tbl, consumerGroup) ==
    COALESCE(IF consumerGroup \in DOMAIN tbl
                THEN tbl[consumerGroup].offset_acked ELSE NULL, 0)

\* Mutant of AckMessageQuery: ON DUPLICATE KEY UPDATE leaves offset_acked out.
AckMessageQuery_KeepAcked(tbl, row, consumerGroup) ==
    Overlay(tbl, [g \in {consumerGroup} |->
        IF consumerGroup \in DOMAIN tbl
           THEN [tbl[consumerGroup] EXCEPT !.offset_consumed = row.offset]
           ELSE [offset_acked |-> Int1(row.offset), offset_consumed |-> row.offset]])

\* Mutant of AckMessageQuery: the update is not restricted to the group's key.
AckMessageQuery_AllRows(tbl, row, consumerGroup) ==
    [g \in DOMAIN tbl \cup {consumerGroup} |->
        [offset_acked |-> Int1(row.offset), offset_consumed |-> row.offset]]

\* INSERT (offset_consumed, offset_acked, consumer_group) VALUES (?,?,?)
\* ON DUPLICATE KEY UPDATE offset_consumed=..., offset_acked=...
AckMessageQuery(tbl, row, consumerGroup) ==
    Overlay(tbl, [g \in {consumerGroup} |->
        [offset_acked |-> Int1(row.offset), offset_consumed |-> row.offset]])

\* Mutant of ConsumedMessageQuery: the inserted row sets offset_acked too.
ConsumedMessageQuery_Acks(tbl, row, consumerGroup) ==
    Overlay(tbl, [g \in {consumerGroup} |->
        IF consumerGroup \in DOMAIN tbl
           THEN [tbl[consumerGroup] EXCEPT !.offset_consumed = row.offset]
           ELSE [offset_acked |-> Int1(row.offset), offset_consumed |-> row.offset]])

\* INSERT (offset_consumed, consumer_group) VALUES (?,?)
\* ON DUPLICATE KEY UPDATE offset_consumed=...
ConsumedMessageQuery(tbl, row, consumerGroup) ==
    Overlay(tbl, [g \in {consumerGroup} |->
        IF consumerGroup \in DOMAIN tbl
           THEN [tbl[consumerGroup] EXCEPT !.offset_consumed = row.offset]
           ELSE [offset_acked |-> NULL, offset_consumed |-> row.offset]])

\* Mutant of SelectQuery: WHERE offset >= (bound).
SelectQuery_Geq(msgs, tbl, consumerGroup, sbs) ==
    Limit(OrderByOffset({r \in msgs : r.offset >= NextOffsetQuery(tbl, consumerGroup)}),
          batchSize(sbs))

\* SELECT offset, uuid, ... FROM messages WHERE offset > (NextOffsetQuery)
\* ORDER BY offset ASC LIMIT batchSize().
SelectQuery(msgs, tbl, consumerGroup, sbs) ==
    Limit(OrderByOffset({r \in msgs : r.offset > NextOffsetQuery(tbl, consumerGroup)}),
          batchSize(sbs))

\* ------------------------------------------------------- locking
\* Mutant of ForUpdateLock: the read takes a shared lock only (no FOR UPDATE).
ForUpdateLock_Shared(tbl, consumerGroup) == "gap"

\* The lock FOR UPDATE takes on the group's key: the row's exclusive lock
\* when the row exists, a shared lock on the key's gap when it does not.
ForUpdateLock(tbl, consumerGroup) ==
    IF consumerGroup \in DOMAIN tbl THEN "row" ELSE "gap"

\* Mutant of ForUpdateGranted: the read never waits for a lock.
ForUpdateGranted_Always(s) == TRUE

\* FOR UPDATE is granted unless another transaction holds the row's lock
\* (gap locks do not conflict with each other).
ForUpdateGranted(s) ==
    \A u \in Others(s) :
        \/ lock[u] = "none"
        \/ lock[u] = "gap" /\ ForUpdateLock(TxView(s), GroupOf(s)) = "gap"

\* Mutant of UpsertGranted: the write waits for row locks only, not for the
\* shared locks other transactions hold on the missing row's key.
UpsertGranted_IgnoreGap(s) == \A u \in Others(s) : lock[u] # "row"

\* Mutant of UpsertGranted: the write never conflicts.
UpsertGranted_Always(s) == TRUE

\* An upsert of the group's row is granted when no other transaction holds
\* a lock on the key, row or gap.
UpsertGranted(s) == \A u \in Others(s) : lock[u] = "none"

\* The values a transaction's end resets.
EndTx(s) ==
    /\ pc' = [pc EXCEPT ![s] = "Idle"]
    /\ lock' = [lock EXCEPT ![s] = "none"]
    /\ writes' = [writes EXCEPT ![s] = NoRows]
    /\ batch' = [batch EXCEPT ![s] = <<>>]
    /\ txAcks' = [txAcks EXCEPT ![s] = <<>>]
    /\ bound' = [bound EXCEPT ![s] = 0]

\* Mutant of SubscribeIsolationLevel: the fetch runs at read committed.
SubscribeIsolationLevel_ReadCommitted == "LevelReadCommitted"

\* SubscribeIsolationLevel(): sql.LevelSerializable.
SubscribeIsolationLevel == "LevelSerializable"

\* At the serializable level the fetch's range read (offset > bound) locks
\* the range it reads: it waits while a row inserted into that range is not
\* yet committed. At lower levels the read sees the committed rows only.
SelectGranted(s) ==
    SubscribeIsolationLevel = "LevelSerializable"
        => \A r \in pending : r.offset <= NextOffsetQuery(TxView(s), GroupOf(s))

\* No statement has been executed yet.
NoStmt == [op |-> "none", input |-> <<>>, query |-> EmptyQuery, err |-> FALSE]

\* ------------------------------------------------------- initial state
Init ==
    /\ messages = {}
    /\ autoinc = 0
    /\ offsets = NoRows
    /\ SubscribeBatchSize \in BatchSizes
    /\ subs \in Deployments
    /\ pc = [s \in Subscribers |-> "Idle"]
    /\ lock = [s \in Subscribers |-> "none"]
    /\ writes = [s \in Subscribers |-> NoRows]
    /\ bound = [s \in Subscribers |-> 0]
    /\ batch = [s \in Subscribers |-> <<>>]
    /\ txAcks = [s \in Subscribers |-> <<>>]
    /\ ackSeq = [g \in Groups |-> <<>>]
    /\ handled = [g \in Groups |-> [k \in 1..MaxMsgs |-> 0]]
    /\ failures = 0
    /\ pending = {}
    /\ tables = {"messages", "offsets"}
    /\ strict = FALSE
    /\ stmt = NoStmt
    /\ result = <<>>
    /\ decoded = <<>>
    /\ published = {}

\* ------------------------------------------------------- publisher
\* The publisher executes InsertQuery for a batch of messages and commits.
Publish(msgs) ==
    /\ autoinc + Len(msgs) <= MaxMsgs
    /\ ~InsertQuery(msgs).err
    /\ messages' = messages \cup StoredRows(autoinc, InsertQuery(msgs).query)
    /\ autoinc' = autoinc + Len(msgs)
    /\ UNCHANGED <<pending, storeVars, offsets, SubscribeBatchSize, subs, pc, lock, writes, bound,
                   batch, txAcks, ackSeq, handled, failures>>

\* ------------------------------------------------------- subscriber loop
\* Idle -> Claiming: open a transaction and issue the fetch statement.
Begin(s) ==
    /\ s \in subs
    /\ pc[s] = "Idle"
    /\ pc' = [pc EXCEPT ![s] = "Claiming"]
    /\ UNCHANGED <<pending, storeVars, messages, autoinc, offsets, SubscribeBatchSize, subs, lock,
                   writes, bound, batch, txAcks, ackSeq, handled, failures>>

\* Claiming -> Processing: the fetch statement runs; its claim-bound subquery
\* takes the lock and reads the bound, and the rows above it are returned.
Query(s) ==
    /\ pc[s] = "Claiming"
    /\ ForUpdateGranted(s)
    /\ SelectGranted(s)
    /\ LET rows == SelectQuery(messages, TxView(s), GroupOf(s), SubscribeBatchSize)
       IN  /\ rows # <<>>
           /\ batch' = [batch EXCEPT ![s] = rows]
    /\ lock' = [lock EXCEPT ![s] = ForUpdateLock(TxView(s), GroupOf(s))]
    /\ bound' = [bound EXCEPT ![s] = NextOffsetQuery(TxView(s), GroupOf(s))]
    /\ pc' = [pc EXCEPT ![s] = "Processing"]
    /\ UNCHANGED <<pending, storeVars, messages, autoinc, offsets, SubscribeBatchSize, subs, writes,
                   txAcks, ackSeq, handled, failures>>

\* The fetch returns no row: the poll cycle ends, the transaction with it.
QueryEmpty(s) ==
    /\ pc[s] = "Claiming"
    /\ ForUpdateGranted(s)
    /\ SelectGranted(s)
    /\ SelectQuery(messages, TxView(s), GroupOf(s), SubscribeBatchSize) = <<>>
    /\ EndTx(s)
    /\ UNCHANGED <<pending, storeVars, messages, autoinc, offsets, SubscribeBatchSize, subs, ackSeq,
                   handled, failures>>

\* Processing, per row: mark-consumed, then the row is handed to the handler.
MarkConsumed(s) ==
    /\ pc[s] = "Processing"
    /\ UpsertGranted(s)
    /\ LET row == Head(batch[s])
           g == GroupOf(s)
       IN  /\ writes' = [writes EXCEPT ![s] = Overlay(@,
                  Changed(TxView(s), ConsumedMessageQuery(TxView(s), row, g)))]
           /\ handled' = [handled EXCEPT ![g][row.offset] = @ + 1]
    /\ lock' = [lock EXCEPT ![s] = "row"]
    /\ pc' = [pc EXCEPT ![s] = "Handling"]
    /\ UNCHANGED <<pending, storeVars, messages, autoinc, offsets, SubscribeBatchSize, subs, bound,
                   batch, txAcks, ackSeq, failures>>

\* The handler succeeded: acknowledge the row inside the transaction.
Ack(s) ==
    /\ pc[s] = "Handling"
    /\ UpsertGranted(s)
    /\ LET row == Head(batch[s])
           g == GroupOf(s)
       IN  /\ writes' = [writes EXCEPT ![s] = Overlay(@,
                  Changed(TxView(s), AckMessageQuery(TxView(s), row, g)))]
           /\ txAcks' = [txAcks EXCEPT ![s] = Append(@, row.offset)]
    /\ batch' = [batch EXCEPT ![s] = Tail(@)]
    /\ pc' = [pc EXCEPT ![s] = IF Len(batch[s]) = 1 THEN "Acked" ELSE "Processing"]
    /\ UNCHANGED <<pending, storeVars, messages, autoinc, offsets, SubscribeBatchSize, subs, lock,
                   bound, ackSeq, handled, failures>>

\* Acked -> Idle: commit the transaction.
Commit(s) ==
    /\ pc[s] = "Acked"
    /\ offsets' = Overlay(offsets, writes[s])
    /\ ackSeq' = [ackSeq EXCEPT ![GroupOf(s)] = @ \o txAcks[s]]
    /\ EndTx(s)
    /\ UNCHANGED <<pending, storeVars, messages, autoinc, SubscribeBatchSize, subs, handled, failures>>

\* Rollback: the transaction's writes and locks are dropped.
Rollback(s) ==
    /\ EndTx(s)
    /\ UNCHANGED <<pending, storeVars, messages, autoinc, offsets, SubscribeBatchSize, subs, ackSeq,
                   handled>>

\* The handler failed on the row it was handed.
HandlerFailure(s) ==
    /\ pc[s] = "Handling"
    /\ failures < MaxFailures
    /\ failures' = failures + 1
    /\ Rollback(s)

\* The subscriber stops or crashes inside an open transaction.
Abandon(s) ==
    /\ pc[s] \in {"Processing", "Handling", "Acked"}
    /\ failures < MaxFailures
    /\ failures' = failures + 1
    /\ Rollback(s)

\* Mutant of Conflict: a waiting statement is never refused, it waits on.
Conflict_WaitForever(s) == FALSE

\* The statement the transaction waits on is refused (lock timeout, or the
\* transaction is the victim of a deadlock): discard and restart from Idle.
Conflict(s) ==
    /\ \/ pc[s] = "Claiming" /\ ~ForUpdateGranted(s)
       \/ pc[s] = "Processing" /\ ~UpsertGranted(s)
    /\ UNCHANGED failures
    /\ Rollback(s)

Next ==
    \/ \E n \in 1..2 : Publish([i \in 1..n |-> PlainMessage])
    \/ \E s \in Subscribers :
          \/ Begin(s)
          \/ Query(s)
          \/ QueryEmpty(s)
          \/ MarkConsumed(s)
          \/ Ack(s)
          \/ Commit(s)
          \/ HandlerFailure(s)
          \/ Abandon(s)
          \/ Conflict(s)

Spec == Init /\ [][Next]_vars

\* A subscriber that ends its poll cycle after mark-consumed without a
\* handler verdict and commits: the row is left with the consumed marker and
\* the acknowledged offset it had (null for a group that never acknowledged).
CommitConsumed(s) ==
    /\ pc[s] = "Handling"
    /\ txAcks[s] = <<>>
    /\ failures < MaxFailures
    /\ failures' = failures + 1
    /\ offsets' = Overlay(offsets, writes[s])
    /\ EndTx(s)
    /\ UNCHANGED <<pending, storeVars, messages, autoinc, SubscribeBatchSize, subs, ackSeq, handled>>

NextClose == Next \/ \E s \in Subscribers : CommitConsumed(s)

SpecClose == Init /\ [][NextClose]_vars

\* ------------------------------------------------------- statements
\* The statements of the two adapters executed one at a time by a single
\* caller, each in a transaction of its own, against a database that starts
\* without tables. The caller keeps what each statement returned.
MaxStored == 2
StoreBatchSizes == {-1, 0, 1, 2}
StoreGroup == "billing"
Metadatas == {Mapping({<<"k", "v">>}), Mapping({<<"k", InvalidUTF8>>}),
              NilMapping, Unencodable}
StoreMessages == {Message(u, p, md) : u \in UUIDs, p \in Payloads, md \in Metadatas}
ForeignBlobs == {SqlNullBlob, NotJson}

Done(op) == [op |-> op, input |-> <<>>, query |-> EmptyQuery, err |-> FALSE]

\* Mutant of CreateTableIfNotExists: the table is created anew.
CreateTable_Replace(name, rows, empty) == empty

\* CREATE TABLE IF NOT EXISTS name: an existing table keeps its rows.
CreateTableIfNotExists(name, rows, empty) ==
    IF name \in tables THEN rows ELSE empty

InitStore ==
    /\ messages = {}
    /\ autoinc = 0
    /\ offsets = NoRows
    /\ SubscribeBatchSize \in StoreBatchSizes
    /\ subs = {}
    /\ pc = [s \in Subscribers |-> "Idle"]
    /\ lock = [s \in Subscribers |-> "none"]
    /\ writes = [s \in Subscribers |-> NoRows]
    /\ bound = [s \in Subscribers |-> 0]
    /\ batch = [s \in Subscribers |-> <<>>]
    /\ txAcks = [s \in Subscribers |-> <<>>]
    /\ ackSeq = [g \in Groups |-> <<>>]
    /\ handled = [g \in Groups |-> [k \in 1..MaxMsgs |-> 0]]
    /\ failures = 0
    /\ pending = {}
    /\ tables = {}
    /\ strict \in BOOLEAN
    /\ stmt = NoStmt
    /\ result = <<>>
    /\ decoded = <<>>
    /\ published = {}

subVars == <<SubscribeBatchSize, subs, pc, lock, writes, bound, batch, txAcks,
             ackSeq, handled, failures, pending, strict>>

\* SchemaInitializingQueries of both adapters, executed.
InitializeSchema ==
    /\ messages' = CreateTableIfNotExists("messages", messages, {})
    /\ offsets' = CreateTableIfNotExists("offsets", offsets, NoRows)
    /\ tables' = tables \cup {"messages", "offsets"}
    /\ stmt' = Done("schema")
    /\ result' = <<>>
    /\ decoded' = <<>>
    /\ UNCHANGED <<autoinc, published, subVars>>

\* InsertQuery for a batch, and the statement executed when it was built:
\* a store that enforces NOT NULL rejects it when a NOT NULL column is given
\* no value, a lenient one stores the column type's implicit default.
ExecInsert(msgs) ==
    /\ "messages" \in tables
    /\ autoinc + Len(msgs) <= MaxStored
    /\ LET q == InsertQuery(msgs)
           rejected == strict /\ ColumnsWithoutValue(InsertColumns) # {}
           rows == IF q.err \/ rejected THEN {} ELSE StoredRows(autoinc, q.query)
       IN  /\ stmt' = [op |-> "insert", input |-> msgs, query |-> q.query,
                       err |-> q.err \/ rejected]
           /\ messages' = messages \cup rows
           /\ autoinc' = autoinc + Cardinality(rows)
           /\ published' = published \cup
                  {[offset |-> autoinc + i, msg |-> msgs[i]] :
                      i \in 1..Cardinality(rows)}
    /\ result' = <<>>
    /\ decoded' = <<>>
    /\ UNCHANGED <<offsets, tables, subVars>>

\* Another writer of the table stores a row whose metadata column is NULL or
\* holds bytes that are not JSON.
ForeignInsert(blob) ==
    /\ "messages" \in tables
    /\ autoinc + 1 <= MaxStored
    /\ messages' = messages \cup
           {[offset |-> autoinc + 1, uuid |-> "u1", created_at |-> "t0",
             payload |-> "hello", metadata |-> blob]}
    /\ autoinc' = autoinc + 1
    /\ stmt' = Done("foreign")
    /\ result' = <<>>
    /\ decoded' = <<>>
    /\ UNCHANGED <<offsets, tables, published, subVars>>

\* SelectQuery executed for the group.
ExecSelect ==
    /\ tables = {"messages", "offsets"}
    /\ result' = SelectQuery(messages, offsets, StoreGroup, SubscribeBatchSize)
    /\ stmt' = Done("select")
    /\ decoded' = <<>>
    /\ UNCHANGED <<messages, autoinc, offsets, tables, published, subVars>>

\* UnmarshalMessage on the next row of the result; the scan succeeds or not.
Decode(ok) ==
    /\ stmt.op = "select"
    /\ Len(decoded) < Len(result)
    /\ LET r == result[Len(decoded) + 1]
           out == UnmarshalMessage([ok |-> ok, row |-> r])
       IN  decoded' = Append(decoded,
               [offset |-> r.offset, scanned |-> ok, row |-> out.row, err |-> out.err])
    /\ UNCHANGED <<messages, autoinc, offsets, tables, stmt, result, published,
                   subVars>>

\* AckMessageQuery executed for the row of offset k.
ExecAck(k) ==
    /\ "offsets" \in tables
    /\ \E row \in messages :
          /\ row.offset = k
          /\ offsets' = AckMessageQuery(offsets, row, StoreGroup)
    /\ stmt' = Done("ack")
    /\ result' = <<>>
    /\ decoded' = <<>>
    /\ UNCHANGED <<messages, autoinc, tables, published, subVars>>

\* ConsumedMessageQuery executed for the row of offset k.
ExecConsumed(k) ==
    /\ "offsets" \in tables
    /\ \E row \in messages :
          /\ row.offset = k
          /\ offsets' = ConsumedMessageQuery(offsets, row, StoreGroup)
    /\ stmt' = Done("consumed")
    /\ result' = <<>>
    /\ decoded' = <<>>
    /\ UNCHANGED <<messages, autoinc, tables, published, subVars>>

NextStore ==
    \/ InitializeSchema
    \/ \E n \in 1..2 : \E msgs \in [1..n -> StoreMessages] : ExecInsert(msgs)
    \/ \E blob \in ForeignBlobs : ForeignInsert(blob)
    \/ ExecSelect
    \/ \E ok \in BOOLEAN : Decode(ok)
    \/ \E k \in 1..MaxStored : ExecAck(k)
    \/ \E k \in 1..MaxStored : ExecConsumed(k)

SpecStore == InitStore /\ [][NextStore]_vars

\* ------------------------------------------------------- properties
\* The transaction of s has completed claim-bound and is still open.
Claimed(s) == pc[s] \in {"Processing", "Handling", "Acked"}

Range(q) == {q[i] : i \in DOMAIN q}

OffsetsOf(rows) == [i \in DOMAIN rows |-> rows[i].offset]

Increasing(q) == \A i, j \in DOMAIN q : i < j => q[i] < q[j]

IsPrefix(p, q) == Len(p) <= Len(q) /\ \A i \in DOMAIN p : p[i] = q[i]

\* The offset of the group's last committed acknowledgment, 0 when none.
LastAcked(g) == IF ackSeq[g] = <<>> THEN 0 ELSE Last(ackSeq[g])

RowOf(tbl, g) == IF g \in DOMAIN tbl THEN <<tbl[g]>> ELSE <<>>

SameGroup(s, u) == s # u /\ GroupOf(s) = GroupOf(u)

\* C1: after N >= 1 committed acknowledgments of a group, claim-bound
\* returns the offset of the N-th one, both on the committed table and as
\* the bound read by every open transaction of the group.
C1_ClaimBoundIsLastAck ==
    \A g \in Groups : ackSeq[g] # <<>> =>
        /\ NextOffsetQuery(offsets, g) = Last(ackSeq[g])
        /\ \A s \in Subscribers :
              Claimed(s) /\ GroupOf(s) = g => bound[s] = Last(ackSeq[g])

C1_Witness ==
    \E s \in Subscribers :
        /\ Claimed(s)
        /\ Len(ackSeq[GroupOf(s)]) >= 2
        /\ bound[s] = Last(ackSeq[GroupOf(s)])

\* C2 as stated: at most one open transaction of a group has completed
\* claim-bound, also when the offsets table holds no row for the group.
C2_OneClaimPerGroup ==
    \A s, u \in Subscribers : SameGroup(s, u) => ~(Claimed(s) /\ Claimed(u))

\* C2 amended: two open transactions of a group have both completed
\* claim-bound only while the offsets table holds no row for the group, and
\* then neither has executed mark-consumed; once the row exists at most one
\* open transaction has completed claim-bound.
C2_OneClaimPerExistingRow ==
    \A s, u \in Subscribers : SameGroup(s, u) /\ Claimed(s) /\ Claimed(u) =>
        /\ GroupOf(s) \notin DOMAIN offsets
        /\ writes[s] = NoRows /\ writes[u] = NoRows
        /\ pc[s] = "Processing" /\ pc[u] = "Processing"

C2_Witness ==
    \E s, u \in Subscribers :
        /\ SameGroup(s, u)
        /\ GroupOf(s) \in DOMAIN offsets
        /\ Claimed(s)
        /\ pc[u] = "Claiming" /\ ~ForUpdateGranted(u)

\* C3: of the transactions claiming a group concurrently only one holds
\* writes (so only one can commit an acknowledgment), every committed
\* acknowledgment advances the cursor, and the bound held by every
\* transaction that completed claim-bound is the cursor last committed.
C3_OneCommitterAndFreshBound ==
    /\ \A s, u \in Subscribers :
          SameGroup(s, u) /\ writes[s] # NoRows => ~Claimed(u)
    /\ \A g \in Groups : Increasing(ackSeq[g])
    /\ \A s \in Subscribers :
          Claimed(s) => bound[s] = NextOffsetQuery(offsets, GroupOf(s))

C3_Witness ==
    \E s, u \in Subscribers :
        /\ SameGroup(s, u)
        /\ pc[s] = "Acked" /\ txAcks[s] # <<>>
        /\ pc[u] = "Claiming" /\ ~ForUpdateGranted(u)
        /\ ackSeq[GroupOf(s)] # <<>>

\* A step in which the open transaction of s ends without committing.
RolledBack(s) == Claimed(s) /\ pc'[s] = "Idle" /\ ackSeq' = ackSeq

\* C4: when a transaction is rolled back or abandoned after claim-bound,
\* the offsets table is as before the transaction, claim-bound then returns
\* the acknowledged offset from before the failure, and the next fetch
\* begins with the rows the transaction had fetched.
C4_RedeliveryAfterFailure ==
    [][\A s \in Subscribers : RolledBack(s) =>
          LET g == GroupOf(s)
          IN  /\ offsets' = offsets
              /\ NextOffsetQuery(offsets', g) = LastAcked(g)
              /\ NextOffsetQuery(offsets', g) = bound[s]
              /\ IsPrefix(txAcks[s] \o OffsetsOf(batch[s]),
                          OffsetsOf(SelectQuery(messages', offsets', g,
                                                SubscribeBatchSize')))]_vars

C4_Witness ==
    \E s \in Subscribers :
        /\ pc[s] = "Handling"
        /\ failures = 1
        /\ handled[GroupOf(s)][Head(batch[s]).offset] = 2
        /\ ackSeq[GroupOf(s)] # <<>>

\* C5: a message is handed to the handler only when every message of the
\* topic with a smaller offset has been acknowledged for the group (by a
\* committed transaction or earlier in the same transaction), and the
\* committed acknowledgments of a group are the offsets 1, 2, 3, ... in order.
C5_InOrderPerGroup ==
    /\ \A g \in Groups : ackSeq[g] = [i \in 1..Len(ackSeq[g]) |-> i]
    /\ \A s \in Subscribers : pc[s] = "Handling" =>
          \A m \in messages : m.offset < Head(batch[s]).offset =>
              m.offset \in Range(ackSeq[GroupOf(s)]) \cup Range(txAcks[s])

C5_Witness ==
    \E s \in Subscribers :
        /\ pc[s] = "Handling"
        /\ Head(batch[s]).offset = 3
        /\ ackSeq[GroupOf(s)] = <<1>>
        /\ txAcks[s] = <<2>>

\* C6: while no handler has failed and no transaction was abandoned, no
\* message was handed to a group's handler more than once, and every
\* acknowledged message was handed to it exactly once.
C6_ExactlyOnceWithoutFailure ==
    failures = 0 =>
        \A g \in Groups : \A k \in 1..MaxMsgs :
            /\ handled[g][k] <= 1
            /\ k \in Range(ackSeq[g]) => handled[g][k] = 1

C6_Witness ==
    \E s, u \in Subscribers :
        /\ SameGroup(s, u)
        /\ failures = 0
        /\ pc[s] = "Handling" /\ pc[u] = "Claiming"
        /\ Head(batch[s]).offset >= 2
        /\ Len(ackSeq[GroupOf(s)]) >= 1

\* The highest offset of the topic, 0 when it has no message.
MaxOffset == IF messages = {} THEN 0
             ELSE CHOOSE k \in {m.offset : m \in messages} :
                     \A m \in messages : m.offset <= k

MinOffset == CHOOSE k \in {m.offset : m \in messages} :
                \A m \in messages : k <= m.offset

\* C7: a fetched batch is strictly increasing in offset and lies above the
\* bound its claim-bound subquery read; with the acknowledged offset equal
\* to the topic's highest offset, claim-bound returns it and fetch is empty.
C7_BatchAboveBound ==
    /\ \A g \in Groups :
          LET b == NextOffsetQuery(offsets, g)
              rows == OffsetsOf(SelectQuery(messages, offsets, g, SubscribeBatchSize))
          IN  /\ Increasing(rows)
              /\ \A i \in DOMAIN rows : rows[i] > b
              /\ (messages # {} /\ LastAcked(g) = MaxOffset) =>
                    b = MaxOffset /\ rows = <<>>
    /\ \A s \in Subscribers : Claimed(s) =>
          /\ Increasing(OffsetsOf(batch[s]))
          /\ \A i \in DOMAIN batch[s] : batch[s][i].offset > bound[s]

C7_Witness ==
    /\ autoinc = 3
    /\ NextOffsetQuery(offsets, "billing") = 3
    /\ SelectQuery(messages, offsets, "billing", SubscribeBatchSize) = <<>>
    /\ \E s \in Subscribers : pc[s] = "Processing" /\ Len(batch[s]) = 3

\* C8: for a group with no committed acknowledgment (no offsets row, or a
\* row whose offset_acked is null) claim-bound returns 0 and fetch starts
\* at the lowest offset of the topic.
C8_ZeroBoundBeforeFirstAck ==
    \A g \in Groups : ackSeq[g] = <<>> =>
        /\ g \in DOMAIN offsets => offsets[g].offset_acked = NULL
        /\ NextOffsetQuery(offsets, g) = 0
        /\ messages # {} =>
              LET rows == SelectQuery(messages, offsets, g, SubscribeBatchSize)
              IN  rows # <<>> /\ Head(rows).offset = MinOffset

C8_Witness ==
    \E g \in Groups :
        /\ g \in DOMAIN offsets
        /\ offsets[g].offset_acked = NULL
        /\ ackSeq[g] = <<>>
        /\ Cardinality(messages) >= 2

\* offset_consumed >= offset_acked in row r once offset_acked is set.
ConsumedAtLeastAcked(r) ==
    r.offset_acked # NULL => r.offset_consumed >= r.offset_acked[1]

\* C9: every offsets row, committed or as written by an open transaction,
\* has offset_consumed >= offset_acked once offset_acked is non-null.
C9_ConsumedAtLeastAcked ==
    /\ \A g \in DOMAIN offsets : ConsumedAtLeastAcked(offsets[g])
    /\ \A s \in Subscribers :
          \A g \in DOMAIN TxView(s) : ConsumedAtLeastAcked(TxView(s)[g])

C9_Witness ==
    \E g \in DOMAIN offsets :
        /\ offsets[g].offset_acked # NULL
        /\ offsets[g].offset_consumed > offsets[g].offset_acked[1]

\* C10: a step of a subscriber of group A leaves the offsets row of every
\* other group B, the messages table and the batch a fetch for B returns
\* unchanged.
C10_GroupsIndependent ==
    [][\A s \in Subscribers : pc'[s] # pc[s] =>
          /\ messages' = messages
          /\ \A h \in Groups \ {GroupOf(s)} :
                /\ RowOf(offsets', h) = RowOf(offsets, h)
                /\ SelectQuery(messages', offsets', h, SubscribeBatchSize')
                      = SelectQuery(messages, offsets, h, SubscribeBatchSize)]_vars

C10_Witness ==
    /\ ackSeq["billing"] = <<1, 2, 3>>
    /\ "shipping" \in DOMAIN offsets
    /\ offsets["shipping"].offset_acked = Int1(1)
    /\ pc["s4"] = "Handling"
    /\ Head(batch["s4"]).offset = 2

\* ------------------------------------------------------------------ C11
\* C11: the messages table is append-only: no statement of either adapter
\* modifies or deletes a stored row, every row an insert adds has an offset
\* above every offset assigned before, and the rows of one batch are stored
\* with increasing offsets in batch order.
C11_AppendOnly ==
    [][/\ messages \subseteq messages'
       /\ \A r \in messages' \ messages :
             /\ r.offset > autoinc
             /\ \A m \in messages : r.offset > m.offset
       /\ stmt'.op = "insert" /\ ~stmt'.err =>
             LET new == OrderByOffset(messages' \ messages)
             IN  /\ Len(new) = Len(stmt'.input)
                 /\ Increasing(OffsetsOf(new))
                 /\ \A i \in DOMAIN new :
                       [offset |-> new[i].offset, msg |-> stmt'.input[i]] \in published'
                       /\ new[i].metadata = JsonMarshal(stmt'.input[i].metadata).blob]_vars

\* A second insert was stored after the group acknowledged an earlier row.
C11_Witness ==
    /\ stmt.op = "insert"
    /\ ~stmt.err
    /\ Cardinality(messages) = 2
    /\ StoreGroup \in DOMAIN offsets

\* ------------------------------------------------------------------ C12
\* C12: when the metadata of any message of the batch cannot be encoded,
\* InsertQuery returns an error and the empty statement and no row is
\* stored; otherwise the statement binds (uuid, payload, encoded metadata)
\* for every message, in batch order.
C12_InsertAllOrNothing ==
    [][stmt'.op = "insert" =>
          LET msgs == stmt'.input
              args == stmt'.query.args
          IN  IF \E i \in DOMAIN msgs : msgs[i].metadata.kind = "unencodable"
                 THEN /\ stmt'.err
                      /\ stmt'.query = EmptyQuery
                      /\ messages' = messages
                 ELSE /\ stmt'.query.query # ""
                      /\ Len(args) = 3 * Len(msgs)
                      /\ \A i \in DOMAIN msgs :
                            /\ args[3 * i - 2] = msgs[i].uuid
                            /\ args[3 * i - 1] = msgs[i].payload
                            /\ args[3 * i] = JsonMarshal(msgs[i].metadata).blob]_vars

\* A batch whose second message cannot be encoded was refused as a whole.
C12_Witness ==
    /\ stmt.op = "insert"
    /\ Len(stmt.input) = 2
    /\ stmt.input[1].metadata.kind = "map"
    /\ stmt.input[2].metadata.kind = "unencodable"
    /\ stmt.err

\* ------------------------------------------------------------------ C13
\* C13: every message stored by the insert statement and then fetched and
\* decoded comes back with the uuid, payload and metadata it was published
\* with.
C13_RoundTrip ==
    \A i \in DOMAIN decoded : \A p \in published :
        decoded[i].offset = p.offset /\ decoded[i].scanned =>
            /\ decoded[i].err = ""
            /\ decoded[i].row.Msg.uuid = p.msg.uuid
            /\ decoded[i].row.Msg.payload = p.msg.payload
            /\ decoded[i].row.Msg.metadata = p.msg.metadata

\* ------------------------------------------------------------------ C14
\* The metadata column values json.Unmarshal parses.
Parsable(blob) == blob.kind \in {"json-object", "json-null"}

\* C14: UnmarshalMessage returns an error and the empty Row when the scan
\* fails or the non-null metadata does not parse; a row whose metadata is
\* NULL decodes to a message with empty metadata; decoding a further row
\* leaves the outcomes of the rows decoded before it as they were.
C14_DecodeFailure ==
    [][/\ \A i \in DOMAIN decoded' :
             LET d == decoded'[i]
                 r == result'[i]
             IN  /\ ~d.scanned \/ (r.metadata # SqlNullBlob /\ ~Parsable(r.metadata))
                       => d.err # "" /\ d.row = EmptyRow
                 /\ d.scanned /\ r.metadata = SqlNullBlob
                       => /\ d.err = ""
                          /\ d.row.Offset = r.offset
                          /\ d.row.Msg = Message(r.uuid, r.payload, EmptyMapping)
       /\ Len(decoded') > Len(decoded) => IsPrefix(decoded, decoded')]_vars

\* A row with NULL metadata was decoded, then a row whose metadata is not
\* JSON failed to decode.
C14_Witness ==
    /\ Len(decoded) = 2
    /\ result[1].metadata = SqlNullBlob
    /\ decoded[1].err = ""
    /\ decoded[2].scanned
    /\ decoded[2].err = "unmarshal"

\* ------------------------------------------------------------------ C15
\* C15: executing the schema initialization again when both tables exist
\* raises no error and leaves the rows of both tables as they were.
C15_InitSchemaIdempotent ==
    [][stmt'.op = "schema" /\ tables = {"messages", "offsets"} =>
          /\ ~stmt'.err
          /\ tables' = tables
          /\ messages' = messages
          /\ offsets' = offsets]_vars

\* The schema was initialized again after messages were stored and the group
\* acknowledged one.
C15_Witness ==
    /\ stmt.op = "schema"
    /\ messages # {}
    /\ StoreGroup \in DOMAIN offsets
    /\ offsets[StoreGroup].offset_acked # NULL

\* ------------------------------------------------------------------ C19
\* The batch size B of the claim: 100 when SubscribeBatchSize is unset (0),
\* the configured value otherwise.
ConfiguredBatchSize ==
    IF SubscribeBatchSize = 0 THEN DefaultBatchSize ELSE SubscribeBatchSize

\* The stored messages above the group's acknowledged offset.
AboveAcked ==
    {m \in messages :
        m.offset > (IF StoreGroup \in DOMAIN offsets
                       THEN COALESCE(offsets[StoreGroup].offset_acked, 0) ELSE 0)}

\* C19: the result of the fetch statement is the first min(B, n) of the n
\* messages above the acknowledged offset, ascending and without a gap, and
\* it never has more than B rows.
C19_FetchLowestPrefix ==
    stmt.op = "select" =>
        LET B == ConfiguredBatchSize
            n == Cardinality(AboveAcked)
        IN  /\ Len(result) = (IF B <= n THEN B ELSE n)
            /\ Len(result) <= B
            /\ \A i \in DOMAIN result :
                  /\ result[i] \in AboveAcked
                  /\ Cardinality({m \in AboveAcked : m.offset < result[i].offset}) = i - 1

\* ------------------------------------------------------------------ C20
\* The values of created_at that are insertion timestamps.
Timestamps == {"t0"}

\* C20: a non-empty batch whose metadata encodes is stored without error by
\* the insert statement, and every row it stored has an offset, a uuid and
\* an insertion timestamp in created_at.
C20_InsertSatisfiesSchema ==
    /\ stmt.op = "insert" /\ stmt.query # EmptyQuery => ~stmt.err
    /\ \A p \in published : \A r \in messages :
          r.offset = p.offset =>
              /\ r.offset >= 1
              /\ r.uuid = p.msg.uuid
              /\ r.created_at \in Timestamps

\* ------------------------------------------------------------------ C18
\* C18: no step lowers a group's committed acknowledged offset, whatever
\* the interleaving of the group's subscriber transactions, including those
\* that claimed before the group had an offsets row.
C18_AckedNeverDecreases ==
    [][\A g \in Groups :
          NextOffsetQuery(offsets', g) >= NextOffsetQuery(offsets, g)]_vars

\* After two committed acknowledgments one instance of the group holds the
\* claim and another one is waiting for it.
C18_Witness ==
    /\ Len(ackSeq["billing"]) >= 2
    /\ NextOffsetQuery(offsets, "billing") = Last(ackSeq["billing"])
    /\ \E s, u \in subs :
          /\ SameGroup(s, u)
          /\ GroupOf(s) = "billing"
          /\ Claimed(s)
          /\ pc[u] = "Claiming"

\* ------------------------------------------------------- concurrent publishers
\* Publishers whose insert transactions stay open: the insert assigns the
\* offset at once, the row becomes visible to other transactions at commit,
\* so rows can commit in another order than their offsets.
PubSubscribers == {"s1", "s2"}

InitPub ==
    /\ messages = {}
    /\ autoinc = 0
    /\ offsets = NoRows
    /\ SubscribeBatchSize \in BatchSizes
    /\ subs = PubSubscribers
    /\ pc = [s \in Subscribers |-> "Idle"]
    /\ lock = [s \in Subscribers |-> "none"]
    /\ writes = [s \in Subscribers |-> NoRows]
    /\ bound = [s \in Subscribers |-> 0]
    /\ batch = [s \in Subscribers |-> <<>>]
    /\ txAcks = [s \in Subscribers |-> <<>>]
    /\ ackSeq = [g \in Groups |-> <<>>]
    /\ handled = [g \in Groups |-> [k \in 1..MaxMsgs |-> 0]]
    /\ failures = 0
    /\ pending = {}
    /\ tables = {"messages", "offsets"}
    /\ strict = FALSE
    /\ stmt = NoStmt
    /\ result = <<>>
    /\ decoded = <<>>
    /\ published = {}

\* A publisher executes InsertQuery for one message inside a transaction.
PublishInsert(msgs) ==
    /\ autoinc + Len(msgs) <= MaxMsgs
    /\ ~InsertQuery(msgs).err
    /\ pending' = pending \cup StoredRows(autoinc, InsertQuery(msgs).query)
    /\ autoinc' = autoinc + Len(msgs)
    /\ UNCHANGED <<messages, offsets, SubscribeBatchSize, subs, pc, lock, writes,
                   bound, batch, txAcks, ackSeq, handled, failures, storeVars>>

\* The publisher's transaction that inserted offset k commits.
PublishCommit(k) ==
    /\ \E r \in pending :
          /\ r.offset = k
          /\ pending' = pending \ {r}
          /\ messages' = messages \cup {r}
    /\ UNCHANGED <<autoinc, offsets, SubscribeBatchSize, subs, pc, lock, writes,
                   bound, batch, txAcks, ackSeq, handled, failures, storeVars>>

\* The publisher's transaction that inserted offset k rolls back; the offset
\* stays unused.
PublishRollback(k) ==
    /\ \E r \in pending :
          /\ r.offset = k
          /\ pending' = pending \ {r}
    /\ UNCHANGED <<messages, autoinc, offsets, SubscribeBatchSize, subs, pc, lock,
                   writes, bound, batch, txAcks, ackSeq, handled, failures,
                   storeVars>>

NextPub ==
    \/ PublishInsert(<<PlainMessage>>)
    \/ \E k \in 1..MaxMsgs : PublishCommit(k)
    \/ \E k \in 1..MaxMsgs : PublishRollback(k)
    \/ \E s \in Subscribers :
          \/ Begin(s)
          \/ Query(s)
          \/ QueryEmpty(s)
          \/ MarkConsumed(s)
          \/ Ack(s)
          \/ Commit(s)
          \/ HandlerFailure(s)
          \/ Abandon(s)
          \/ Conflict(s)

SpecPub == InitPub /\ [][NextPub]_vars

\* ------------------------------------------------------------------ C16
\* C16: every committed message at or below a group's acknowledged offset
\* was acknowledged by a committed transaction of the group, also when
\* publishers commit in another order than their offsets were assigned.
C16_NoMessageSkipped ==
    \A g \in Groups : \A m \in messages :
        m.offset <= NextOffsetQuery(offsets, g) => m.offset \in Range(ackSeq[g])

\* Offset 3 is committed while offset 2 is not, the group has acknowledged
\* offset 1 and an instance waits to fetch.
C16_Witness ==
    /\ \E m \in messages : m.offset = 3
    /\ \E r \in pending : r.offset = 2
    /\ NextOffsetQuery(offsets, "billing") = 1
    /\ ackSeq["billing"] = <<1>>
    /\ \E s \in subs : pc[s] = "Claiming" /\ ForUpdateGranted(s) /\ ~SelectGranted(s)

\* ------------------------------------------------------- fair scheduling
\* Two instances of one group under a fair scheduler: an instance whose
\* next step stays possible takes it, the store resolves a wait that cannot
\* end by refusing one of the waiting statements, and a statement that is
\* waiting for a lock gets it when the lock is free again and again.
LiveFairness ==
    \A s \in PubSubscribers :
        /\ WF_vars(Begin(s))
        /\ WF_vars(Query(s))
        /\ WF_vars(QueryEmpty(s))
        /\ SF_vars(MarkConsumed(s))
        /\ WF_vars(Ack(s))
        /\ WF_vars(Commit(s))
        /\ WF_vars(Conflict(s))

\* The publisher and the subscriber loops with handlers that succeed and
\* instances that keep running.
NextLive ==
    \/ \E n \in 1..2 : Publish([i \in 1..n |-> PlainMessage])
    \/ \E s \in Subscribers :
          \/ Begin(s)
          \/ Query(s)
          \/ QueryEmpty(s)
          \/ MarkConsumed(s)
          \/ Ack(s)
          \/ Commit(s)
          \/ Conflict(s)

SpecLive == InitPub /\ [][NextLive]_vars /\ LiveFairness

====
